---- MODULE Spec2Model ----
(***************************************************************************)
(* A model of lumispy/utils/axes.py: the wavelength -> energy axis        *)
(* conversion (axis2eV) and the overlap joining of spectra (join_spectra). *)
(*                                                                         *)
(* Numbers.  Axis coordinates are integers.  Intensities are exact         *)
(* rationals <<n, d>> (d > 0, lowest terms); <<0, 0>> is NaN.  The centre  *)
(* of an overlap, (omax + omin) / 2, is carried doubled (omax + omin) so   *)
(* that it stays an integer.  Indices ind1, ind2, ind2r are Python's       *)
(* 0-based indices; sequences are TLA+'s 1-based ones, read through the    *)
(* Py* operators, which follow Python's slice rules (negative indices      *)
(* count from the end, bounds are clipped).                                *)
(***************************************************************************)
EXTENDS Integers, Sequences, FiniteSets, TLC

VARIABLES
    heap,      \* the objects: a sequence of spectra, a reference is an index
    S,         \* join_spectra's argument S: a sequence of references
    r,         \* argument r
    average,   \* argument average
    kind,      \* argument kind
    orig,      \* the input spectra as they were when the call was made
    pc,        \* position in join_spectra, or the failure it ended with
    s1,        \* S1, the accumulator (a reference; 0: not yet made)
    s2,        \* S2, the working copy of S[i] (a reference; 0: not yet made)
    i,         \* the fold loop's index into S (1-based: Python's i + 1)
    ind1,      \* local ind1
    ind2,      \* local ind2 (after the out-of-order increment)
    factor,    \* local factor
    fkind,     \* the kind= handed to interp1d by the last merge ("none": none)
    nmerged,   \* fold steps whose merge has run
    evpc,      \* position in axis2eV
    ax0,       \* axis2eV's argument: [units, axis]
    evout      \* axis2eV's result: [axis, factor, units, name]

joinvars == <<heap, S, r, average, kind, orig, pc, s1, s2, i, ind1, ind2,
              factor, fkind, nmerged>>
evvars == <<evpc, ax0, evout>>
vars == <<joinvars, evvars>>

(***************************************************************************)
(* Bounds of the model.                                                    *)
(***************************************************************************)
MaxR == 2          \* r ranges over 0 .. MaxR
AxisLen == 6       \* samples of each uniform input axis
MaxSpectra == 3    \* spectra in S
EvMaxLen == 3      \* samples of an axis given to axis2eV

(***************************************************************************)
(* Exact rational arithmetic standing for numpy's float arithmetic.        *)
(***************************************************************************)
Abs(x) == IF x < 0 THEN -x ELSE x

RECURSIVE GCD(_, _)
GCD(a, b) == IF b = 0 THEN a ELSE GCD(b, a % b)

NaN == <<0, 0>>

IsNaN(q) == q[2] = 0

Rat(n, d) ==
    IF d = 0 THEN NaN
    ELSE LET g == GCD(Abs(n), Abs(d))
             sg == IF d < 0 THEN -1 ELSE 1
         IN  <<sg * (n \div g), sg * (d \div g)>>

RInt(n) == <<n, 1>>

RAdd(p, q) ==
    IF IsNaN(p) \/ IsNaN(q) THEN NaN
    ELSE Rat(p[1] * q[2] + q[1] * p[2], p[2] * q[2])

RSub(p, q) == RAdd(p, IF IsNaN(q) THEN NaN ELSE <<-q[1], q[2]>>)

RMul(p, q) ==
    IF IsNaN(p) \/ IsNaN(q) THEN NaN
    ELSE Rat(p[1] * q[1], p[2] * q[2])

RDiv(p, q) ==
    IF IsNaN(p) \/ IsNaN(q) \/ q[1] = 0 THEN NaN
    ELSE Rat(p[1] * q[2], p[2] * q[1])

(***************************************************************************)
(* Python indexing and slicing of a 1-based sequence by 0-based indices.   *)
(***************************************************************************)
PyClip(k, n) ==
    IF k < 0 THEN (IF k + n < 0 THEN 0 ELSE k + n)
    ELSE (IF k > n THEN n ELSE k)

\* s[a:b]
PySlice(s, a, b) ==
    LET lo == PyClip(a, Len(s))
        hi == PyClip(b, Len(s))
    IN  IF lo < hi THEN SubSeq(s, lo + 1, hi) ELSE <<>>

\* s[a:]
PyFrom(s, a) ==
    LET lo == PyClip(a, Len(s))
    IN  IF lo < Len(s) THEN SubSeq(s, lo + 1, Len(s)) ELSE <<>>

\* s[:b]
PyUpTo(s, b) == PySlice(s, 0, b)

\* whether s[k] exists
PyIn(s, k) == -Len(s) <= k /\ k < Len(s)

\* s[k], for k with PyIn(s, k)
PyItem(s, k) == s[(IF k < 0 THEN k + Len(s) ELSE k) + 1]

SeqMax(s) == CHOOSE x \in {s[j] : j \in 1..Len(s)} :
                 \A y \in {s[j] : j \in 1..Len(s)} : y <= x

SeqMin(s) == CHOOSE x \in {s[j] : j \in 1..Len(s)} :
                 \A y \in {s[j] : j \in 1..Len(s)} : x <= y

\* axis.value2index(v), v given doubled as v2: the 0-based indices of the
\* samples nearest to v.  Two samples at the same distance are both
\* returned: the uniform axis rounds the index half to even, the non-uniform
\* one takes the first minimum, so either neighbour can be the answer.
Value2Index(axis, v2) ==
    {j \in 0..(Len(axis) - 1) :
        \A k \in 0..(Len(axis) - 1) :
            Abs(2 * axis[j + 1] - v2) <= Abs(2 * axis[k + 1] - v2)}

\* whether v (doubled: v2) lies within the axis' limits
InLimits(axis, v2) == 2 * SeqMin(axis) <= v2 /\ v2 <= 2 * SeqMax(axis)

(***************************************************************************)
(* Spectra: a Signal1D with one signal axis.  A uniform axis is generated  *)
(* from its offset (axis[1]), scale and size; a non-uniform one (DataAxis) *)
(* holds its samples, and its scale is 0.                                  *)
(***************************************************************************)
Grid(offset, scale, size) == [j \in 1..size |-> offset + scale * (j - 1)]

\* the intensity at coordinate x of a spectrum of the given shape and gain
Intensity(gain, shape, x) ==
    CASE shape = "flat" -> RInt(gain * 10)
      [] shape = "mod3" -> RInt(gain * (x % 3))

Signal(uniform, scale, axis, d) ==
    [uniform |-> uniform, scale |-> scale, axis |-> axis,
     data |-> [j \in 1..Len(axis) |-> Intensity(d[1], d[2], axis[j])]]

Datas == {<<1, "flat">>, <<2, "flat">>, <<1, "mod3">>, <<2, "mod3">>,
          <<0, "flat">>}

\* <<offset, scale>> of the uniform input axes
UniformAxes == {<<0, 2>>, <<2, 2>>, <<3, 2>>, <<4, 1>>, <<1, 4>>}

NonUniformAxes == {<<10, 15, 22, 30, 38, 45>>, <<35, 40, 45, 50, 56>>,
                   <<0, 14, 18, 19, 20>>, <<10, 12, 13, 17, 22, 30>>}

Spectra ==
    {Signal(TRUE, u[2], Grid(u[1], u[2], AxisLen), d) :
        u \in UniformAxes, d \in Datas}
    \cup {Signal(FALSE, 0, a, d) : a \in NonUniformAxes, d \in Datas}

\* the spectra a list of more than two is continued with
TailSpectra == {Signal(TRUE, 2, Grid(12, 2, AxisLen), <<1, "flat">>)}

RECURSIVE Lists(_)
Lists(n) ==
    IF n = 2 THEN {<<a, b>> : a \in Spectra, b \in Spectra}
    ELSE {Append(l, t) : l \in Lists(n - 1), t \in TailSpectra}

InputLists == UNION {Lists(n) : n \in 2..MaxSpectra}

\* A on 500..600 step 1 with constant data 10, B on 580..700 step 1 with
\* constant data 20
Scenario == <<Signal(TRUE, 1, Grid(500, 1, 101), <<1, "flat">>),
              Signal(TRUE, 1, Grid(580, 1, 121), <<2, "flat">>)>>

Kinds == {"slinear", "previous"}

InitJoin ==
    /\ \/ heap \in InputLists /\ r \in 0..MaxR
       \/ heap = Scenario /\ r \in {9, 10}
    /\ S = [j \in 1..Len(heap) |-> j]
    /\ orig = heap
    /\ average \in BOOLEAN
    /\ kind \in Kinds
    /\ pc = "start"
    /\ s1 = 0 /\ s2 = 0 /\ i = 0 /\ ind1 = 0 /\ ind2 = 0
    /\ factor = NaN /\ fkind = "none" /\ nmerged = 0

(***************************************************************************)
(* join_spectra, lines 123-147: the overlap test, the basis, and the       *)
(* first half of a fold step.                                              *)
(***************************************************************************)
\* NoOverlap as it would be otherwise: only the first pair is tested
NoOverlapFirstPair(h, lst) ==
    SeqMax(h[lst[1]].axis) < SeqMin(h[lst[2]].axis)

\* lines 124-126: some adjacent pair of lst does not overlap
NoOverlap(h, lst) ==
    \E j \in 2..Len(lst) : SeqMax(h[lst[j - 1]].axis) < SeqMin(h[lst[j]].axis)

TestOverlap ==
    /\ pc = "start"
    /\ pc' = IF NoOverlap(heap, S) THEN "OverlapError" ELSE "tested"
    /\ UNCHANGED <<evvars, heap, S, r, average, kind, orig, s1, s2, i, ind1, ind2,
                   factor, fkind, nmerged>>

\* CopyTarget as it would be otherwise: no copy is made, the object itself is used
AliasTarget(h, ref) == ref

\* x.deepcopy(): the reference of the copy, a new object
CopyTarget(h, ref) == Len(h) + 1

Store(h, ref, obj) ==
    IF ref = Len(h) + 1 THEN Append(h, obj) ELSE [h EXCEPT ![ref] = obj]

TakeBasis ==
    /\ pc = "tested"
    /\ s1' = CopyTarget(heap, S[1])
    /\ heap' = Store(heap, s1', heap[S[1]])
    /\ i' = 2
    /\ pc' = "loop"
    /\ UNCHANGED <<evvars, S, r, average, kind, orig, s2, ind1, ind2, factor, fkind,
                   nmerged>>

\* lines 133-147 for the values i1, i2, last that value2index returns
Locate ==
    /\ pc = "loop" /\ i <= Len(S) /\ heap[s1].axis # <<>>
    /\ LET A == heap[s1]
           B == heap[S[i]]
           omax == SeqMax(A.axis)
           omin == SeqMin(B.axis)
       IN  \E i1 \in Value2Index(A.axis, omax + omin),
              i2 \in Value2Index(B.axis, omax + omin),
              last \in Value2Index(A.axis, 2 * omax) :
              /\ s2' = CopyTarget(heap, S[i])
              /\ heap' = Store(heap, s2', B)
              /\ ind1' = i1
              /\ ind2' = IF A.axis[i1 + 1] > B.axis[i2 + 1] THEN i2 + 1 ELSE i2
              /\ pc' = IF last - i1 <= r THEN "RangeError" ELSE "located"
    /\ UNCHANGED <<evvars, S, r, average, kind, orig, s1, i, factor, fkind, nmerged>>

\* lines 139, 141: value2index refuses a value outside the axis' limits
LocateOutOfLimits ==
    /\ pc = "loop" /\ i <= Len(S) /\ heap[s1].axis # <<>>
    /\ LET A == heap[s1]
           B == heap[S[i]]
           c2 == SeqMax(A.axis) + SeqMin(B.axis)
       IN  /\ ~InLimits(A.axis, c2) \/ ~InLimits(B.axis, c2)
           /\ s2' = CopyTarget(heap, S[i])
           /\ heap' = Store(heap, s2', B)
    /\ pc' = "LimitError"
    /\ UNCHANGED <<evvars, S, r, average, kind, orig, s1, i, ind1, ind2, factor,
                   fkind, nmerged>>

\* line 135: axis.axis.max() of an accumulator whose axis has no sample left
EmptyAxis ==
    /\ pc = "loop" /\ i <= Len(S) /\ heap[s1].axis = <<>>
    /\ s2' = CopyTarget(heap, S[i])
    /\ heap' = Store(heap, s2', heap[S[i]])
    /\ pc' = "EmptyError"
    /\ UNCHANGED <<evvars, S, r, average, kind, orig, s1, i, ind1, ind2, factor,
                   fkind, nmerged>>

Return ==
    /\ pc = "loop" /\ i > Len(S)
    /\ pc' = "done"
    /\ UNCHANGED <<evvars, heap, S, r, average, kind, orig, s1, s2, i, ind1, ind2,
                   factor, fkind, nmerged>>

(***************************************************************************)
(* join_spectra, lines 148-154: the scaling factor.                        *)
(***************************************************************************)
\* np.divide(wa, wb, out = init, where = wb != 0) at position j, init being
\* NaN everywhere; a window wa of one sample is broadcast
Ratio(wa, wb, j) ==
    IF wb[j] = RInt(0) THEN NaN
    ELSE RDiv(IF Len(wa) = 1 THEN wa[1] ELSE wa[j], wb[j])

\* whether np.divide accepts the two windows with an out of wb's shape
Broadcastable(wa, wb) == Len(wa) = Len(wb) \/ Len(wa) = 1

RECURSIVE NanSum(_, _)
NanSum(q, n) ==
    IF n = 0 THEN RInt(0)
    ELSE IF IsNaN(q[n]) THEN NanSum(q, n - 1)
    ELSE RAdd(NanSum(q, n - 1), q[n])

NanCount(q) == Cardinality({j \in 1..Len(q) : ~IsNaN(q[j])})

\* NanMean as it would be otherwise: the mean over all positions, the undefined ones
\* counted as 0
MeanOverAll(q) ==
    IF Len(q) = 0 THEN NaN ELSE RDiv(NanSum(q, Len(q)), RInt(Len(q)))

\* np.nanmean(q): NaN when no position is defined
NanMean(q) ==
    IF NanCount(q) = 0 THEN NaN
    ELSE RDiv(NanSum(q, Len(q)), RInt(NanCount(q)))

ScalingFactor(wa, wb) == NanMean([j \in 1..Len(wb) |-> Ratio(wa, wb, j)])

\* (S2.data.T * factor).T
ScaleData(data, f) == [j \in 1..Len(data) |-> RMul(data[j], f)]

Scale ==
    /\ pc = "located"
    /\ LET wa == PySlice(heap[s1].data, ind1 - r, ind1 + r)
           wb == PySlice(heap[s2].data, ind2 - r, ind2 + r)
       IN  IF Broadcastable(wa, wb)
           THEN /\ factor' = ScalingFactor(wa, wb)
                /\ heap' = [heap EXCEPT ![s2].data = ScaleData(@, factor')]
                /\ pc' = "scaled"
           ELSE /\ pc' = "ShapeError"
                /\ UNCHANGED <<heap, factor>>
    /\ UNCHANGED <<evvars, S, r, average, kind, orig, s1, s2, i, ind1, ind2, fkind,
                   nmerged>>

(***************************************************************************)
(* join_spectra, lines 156-189: the merge.                                 *)
(***************************************************************************)
\* whether interp1d(xs, ...) accepts the target x
InRange(xs, x) == Len(xs) >= 1 /\ xs[1] <= x /\ x <= xs[Len(xs)]

\* interp1d(xs, ys, kind = k)(x) for x in range and two samples or more
Interp1d(k, xs, ys, x) ==
    IF k = "previous"
    THEN ys[CHOOSE j \in 1..Len(xs) :
                xs[j] <= x /\ (j = Len(xs) \/ x < xs[j + 1])]
    ELSE LET j == CHOOSE n \in 1..(Len(xs) - 1) : xs[n] <= x /\ x <= xs[n + 1]
         IN  RAdd(ys[j], RMul(RSub(ys[j + 1], ys[j]),
                              Rat(x - xs[j], xs[j + 1] - xs[j])))

\* the kind= of the interp1d calls of lines 163-164 and 170-171
InterpKind(k) == "slinear"

\* np.mean([a, b], axis = 0)
Mean2(a, b) == [j \in 1..Len(a) |-> RDiv(RAdd(a[j], b[j]), RInt(2))]

\* NewSize as it would be otherwise: the grid point at the last sample of B is kept
NewSizeInclusive(A, B, i1) ==
    Len(PyUpTo(A.axis, i1))
        + ((B.axis[Len(B.axis)] - PyItem(A.axis, i1)) \div A.scale) + 1

\* line 159: the size of the merged uniform axis
NewSize(A, B, i1) ==
    Len(PyUpTo(A.axis, i1))
        + ((B.axis[Len(B.axis)] - PyItem(A.axis, i1)) \div A.scale)

\* lines 161-173 on the resized grid g, i2r being ind2r (ind2 when average
\* is off): [err, data]
UniformData(A, B, g, k, i1, i2r, rr, avg) ==
    LET xs == PyFrom(B.axis, i2r)
        ys == PyFrom(B.data, i2r)
        f(ts) == [j \in 1..Len(ts) |-> Interp1d(k, xs, ys, ts[j])]
        ok(ts) == \A j \in 1..Len(ts) : InRange(xs, ts[j])
        mida == PySlice(A.data, i1 - rr + 1, i1 + rr)
        midt == PySlice(g, i1 - rr + 1, i1 + rr)
        tailt == PyFrom(g, i1 + rr)
        cutt == PyFrom(g, i1 + 1)
    IN  IF Len(xs) < 2 THEN [err |-> "InterpError", data |-> A.data]
        ELSE IF avg
        THEN IF ~ok(midt) THEN [err |-> "InterpError", data |-> A.data]
             ELSE IF Len(mida) # Len(midt)
             THEN [err |-> "ShapeError", data |-> A.data]
             ELSE IF ~ok(tailt) THEN [err |-> "InterpError", data |-> A.data]
             ELSE [err |-> "",
                   data |-> PyUpTo(A.data, i1 - rr + 1)
                            \o Mean2(mida, f(midt)) \o f(tailt)]
        ELSE IF ~ok(cutt) THEN [err |-> "InterpError", data |-> A.data]
             ELSE [err |-> "", data |-> PyUpTo(A.data, i1 + 1) \o f(cutt)]

MergeUniform ==
    /\ pc = "scaled" /\ heap[s1].uniform
    /\ LET A == heap[s1]
           B == heap[s2]
           g == Grid(A.axis[1], A.scale, NewSize(A, B, ind1))
       IN  IF average /\ ~PyIn(g, ind1 - r)
           THEN /\ heap' = [heap EXCEPT ![s1].axis = g]
                /\ pc' = "IndexError"
                /\ UNCHANGED <<fkind, i, nmerged>>
           ELSE \E i2r \in (IF average
                            THEN Value2Index(B.axis, 2 * PyItem(g, ind1 - r))
                            ELSE {ind2}) :
                  LET res == UniformData(A, B, g, InterpKind(kind), ind1,
                                         i2r, r, average)
                  IN  /\ heap' = [heap EXCEPT ![s1].axis = g,
                                              ![s1].data = res.data]
                      /\ fkind' = InterpKind(kind)
                      /\ IF res.err = ""
                         THEN pc' = "loop" /\ i' = i + 1
                              /\ nmerged' = nmerged + 1
                         ELSE pc' = res.err /\ UNCHANGED <<i, nmerged>>
    /\ UNCHANGED <<evvars, S, r, average, kind, orig, s1, s2, ind1, ind2, factor>>

\* JoinAxis as it would be otherwise: B is cut at the index found before the
\* out-of-order increment
JoinAxisNoIncrement(a1, a2, i1, i2) ==
    PyUpTo(a1, i1)
    \o PyFrom(a2, IF i2 > 0 /\ PyItem(a1, i1) > a2[i2] THEN i2 - 1 ELSE i2)

\* line 181: np.hstack((axis.axis[:ind1], axis2.axis[ind2:]))
JoinAxis(a1, a2, i1, i2) == PyUpTo(a1, i1) \o PyFrom(a2, i2)

\* lines 182-189: [err, data]
NonUniformData(A, B, i1, i2, rr, avg) ==
    LET mida == PySlice(A.data, i1 - rr, i1 + rr)
        midb == PySlice(B.data, i2 - rr, i2 + rr)
    IN  IF avg
        THEN IF Len(mida) # Len(midb)
             THEN [err |-> "ShapeError", data |-> A.data]
             ELSE [err |-> "",
                   data |-> PyUpTo(A.data, i1 - rr) \o Mean2(mida, midb)
                            \o PyFrom(B.data, i2 + rr)]
        ELSE [err |-> "", data |-> PyUpTo(A.data, i1) \o PyFrom(B.data, i2)]

MergeNonUniform ==
    /\ pc = "scaled" /\ ~heap[s1].uniform
    /\ LET A == heap[s1]
           B == heap[s2]
           res == NonUniformData(A, B, ind1, ind2, r, average)
       IN  /\ heap' = [heap EXCEPT
                          ![s1].axis = JoinAxis(A.axis, B.axis, ind1, ind2),
                          ![s1].data = res.data]
           /\ IF res.err = ""
              THEN pc' = "loop" /\ i' = i + 1 /\ nmerged' = nmerged + 1
              ELSE pc' = res.err /\ UNCHANGED <<i, nmerged>>
    /\ UNCHANGED <<evvars, S, r, average, kind, orig, s1, s2, ind1, ind2, factor,
                   fkind>>

(***************************************************************************)
(* axis2eV and what it calls, lines 32-77.  A wavelength is an integer     *)
(* number of nm (of um on an axis whose units are um, written "um" here);  *)
(* an energy is an integer number of 0.1 meV, and the refractive index of  *)
(* air is carried as (n - 1) in units of 1e-7, all divisions being integer *)
(* divisions.                                                              *)
(***************************************************************************)
\* _n_air(wl) - 1 in units of 1e-7, wl in nm; 1/wl**2 is taken in 1e-3 um^-2
NAirExcess(wl) ==
    LET inv == 1000000000 \div (wl * wl)
    IN  806 + 248099000 \div (132274 - inv) + 1745570 \div (39330 - inv)

\* nm2eV(x) in 0.1 meV: 1e9 h c / e is 1239.841984 eV nm, and the divisor
\* is _n_air(x) * x in units of 0.01 nm
nm2eV(x) == 1239841984 \div (100 * x + (x * NAirExcess(x)) \div 100000)

\* Reverse as it would be otherwise: the order is kept
KeepOrder(s) == s

\* s[::-1]
Reverse(s) == [j \in 1..Len(s) |-> s[Len(s) + 1 - j]]

\* lines 68-75: the DataAxis and the factor axis2eV returns
EvAxis(ax) ==
    IF ax.units = "um"
    THEN [axis |-> Reverse([j \in 1..Len(ax.axis) |->
                               nm2eV(1000 * ax.axis[j])]),
          factor |-> 1000, name |-> "Energy", units |-> "eV",
          navigate |-> FALSE]
    ELSE [axis |-> Reverse([j \in 1..Len(ax.axis) |-> nm2eV(ax.axis[j])]),
          factor |-> 1000000, name |-> "Energy", units |-> "eV",
          navigate |-> FALSE]

Axis2eV ==
    /\ evpc = "start"
    /\ IF ax0.units = "eV"
       THEN evpc' = "AttributeError" /\ UNCHANGED evout
       ELSE evpc' = "done" /\ evout' = EvAxis(ax0)
    /\ UNCHANGED <<ax0, joinvars>>

\* the coordinates an axis of the given units is drawn from
Coordinates(units) ==
    CASE units = "nm" -> {185, 186, 400, 700, 701, 1699, 1700}
      [] units = "um" -> {1, 2, 3, 4, 5}
      [] units = "eV" -> {1, 2, 3}

\* the strictly ascending axes of at most EvMaxLen samples
Ascending(G) ==
    {s \in UNION {[1..n -> G] : n \in 1..EvMaxLen} :
        \A j \in 1..(Len(s) - 1) : s[j] < s[j + 1]}

InitEV ==
    /\ evpc = "start"
    /\ \E u \in {"nm", "um", "eV"} :
          \E a \in Ascending(Coordinates(u)) : ax0 = [units |-> u, axis |-> a]
    /\ evout = <<>>

InitIdleJoin ==
    /\ heap = <<>> /\ S = <<>> /\ orig = <<>>
    /\ r = 0 /\ average = FALSE /\ kind = "slinear"
    /\ pc = "idle"
    /\ s1 = 0 /\ s2 = 0 /\ i = 0 /\ ind1 = 0 /\ ind2 = 0
    /\ factor = NaN /\ fkind = "none" /\ nmerged = 0

InitIdleEV == evpc = "idle" /\ ax0 = <<>> /\ evout = <<>>

\* a call of join_spectra
Init == InitJoin /\ InitIdleEV

Next ==
    \/ TestOverlap
    \/ TakeBasis
    \/ Locate
    \/ LocateOutOfLimits
    \/ EmptyAxis
    \/ Scale
    \/ MergeUniform
    \/ MergeNonUniform
    \/ Return

Spec == Init /\ [][Next]_vars

\* a call of axis2eV
NextEV == Axis2eV

InitConversion == InitEV /\ InitIdleJoin

SpecEV == InitConversion /\ [][NextEV]_vars

(***************************************************************************)
(* Properties.                                                             *)
(***************************************************************************)
Failed ==
    pc \in {"OverlapError", "RangeError", "LimitError", "EmptyError",
            "ShapeError", "InterpError", "IndexError"}

Increasing(s) == \A j \in 1..(Len(s) - 1) : s[j] < s[j + 1]

\* some adjacent pair of the spectra given does not overlap
SomePairApart ==
    \E j \in 2..Len(orig) : SeqMax(orig[j - 1].axis) < SeqMin(orig[j].axis)

\* C1: join_spectra ends with the overlap error exactly when some adjacent
\* pair of S has max(axis of S[i-1]) < min(axis of S[i]); all pairs are
\* tested before the first fold step, so when a pair fails no working copy
\* has been made and nothing has been scaled or merged.
C1_OverlapTestedFirst ==
    /\ SomePairApart =>
          /\ pc \in {"start", "OverlapError"}
          /\ s1 = 0 /\ s2 = 0 /\ nmerged = 0 /\ heap = orig
    /\ pc = "OverlapError" => SomePairApart

\* the call failed on its second pair although its first pair overlaps
C1_Witness ==
    /\ pc = "OverlapError" /\ Len(S) = 3
    /\ SeqMax(orig[1].axis) >= SeqMin(orig[2].axis)
    /\ SeqMax(orig[2].axis) < SeqMin(orig[3].axis)

\* the samples of the accumulator inside the overlap [min(B), max(A)]
OverlapPixels ==
    Cardinality({j \in 1..Len(heap[s1].axis) :
                    /\ SeqMin(heap[s2].axis) <= heap[s1].axis[j]
                    /\ heap[s1].axis[j] <= SeqMax(heap[s1].axis)})

\* C2: a fold step fails with the range error whenever r exceeds the
\* overlap samples of the pair, and r is accepted only if it is less than
\* half of the overlapping pixels.
C2_HalfOfOverlap ==
    /\ (pc \in {"located", "RangeError"} /\ r > OverlapPixels)
          => pc = "RangeError"
    /\ pc = "located" => 2 * r < OverlapPixels

Flat(n, v) == [j \in 1..n |-> RInt(v)]

\* C3: A on 500..600 step 1 (data 10) and B on 580..700 step 1 (data 20)
\* joined with r = 10: the call succeeds, B is scaled by 1/2, and the
\* result is constant 10 on an axis covering 500..700.
C3_ScenarioAsStated ==
    (orig = Scenario /\ r = 10) =>
        /\ ~Failed
        /\ pc = "done" =>
              /\ factor = <<1, 2>>
              /\ heap[s1].axis = Grid(500, 1, 201)
              /\ heap[s1].data = Flat(201, 10)

\* C3 as amended: with r = 9 the call succeeds, B is scaled by 1/2 and the
\* result is constant 10 on the axis 500..699 (200 samples: 700, the last
\* sample of B, is not on the merged grid); with r = 10 the call ends with
\* the range error, index_of(600) - ind1 = 100 - 90 not being above 10.
C3_ScenarioAmended ==
    /\ (orig = Scenario /\ r = 9) =>
          /\ ~Failed
          /\ pc \in {"located", "scaled"} => ind1 = 90 /\ ind2 = 10
          /\ pc = "done" =>
                /\ factor = <<1, 2>>
                /\ heap[s2].data = Flat(121, 10)
                /\ heap[s1].axis = Grid(500, 1, 200)
                /\ heap[s1].data = Flat(200, 10)
    /\ (orig = Scenario /\ r = 10) =>
          pc \in {"start", "tested", "loop", "RangeError"}

C3_Witness == orig = Scenario /\ r = 9 /\ pc = "done" /\ nmerged = 1

\* the windows the scaling factor of the current fold step is taken from:
\* the accumulator's, and that of S[i] as it was given
WindowA == PySlice(heap[s1].data, ind1 - r, ind1 + r)

WindowB == PySlice(orig[i].data, ind2 - r, ind2 + r)

\* the constants k tried
Multipliers == {Rat(n, d) : n \in {-2, -1, 1, 2, 3, 4}, d \in {1, 2, 3, 4}}

\* B's window, which holds a sample at least, is A's window times k
WindowsProportional(k) ==
    /\ WindowB # <<>>
    /\ Len(WindowA) = Len(WindowB)
    /\ \A j \in 1..Len(WindowB) : WindowB[j] = RMul(k, WindowA[j])

\* the positions of the window where B is not zero
NonZero == {j \in 1..Len(WindowB) : WindowB[j] # RInt(0)}

RECURSIVE RatioSum(_)
RatioSum(P) ==
    IF P = {} THEN RInt(0)
    ELSE LET j == CHOOSE x \in P : TRUE
         IN  RAdd(RDiv(WindowA[j], WindowB[j]), RatioSum(P \ {j}))

\* the factor is the mean of A / B over the positions where B is not zero,
\* and all of B's data is multiplied by it
FactorIsMean ==
    (/\ Len(WindowA) = Len(WindowB)
     /\ \A j \in 1..Len(WindowA) : ~IsNaN(WindowA[j])) =>
        /\ NonZero # {} =>
              RMul(factor, RInt(Cardinality(NonZero))) = RatioSum(NonZero)
        /\ \A j \in 1..Len(orig[i].data) :
              heap[s2].data[j] = RMul(orig[i].data[j], factor)

\* C4: when B's window is A's window times a constant k # 0 the factor is
\* 1/k; in general the factor is the mean of A / B over the window
\* positions where B is not zero, and all of B's data is multiplied by it.
C4_ReciprocalAsStated ==
    pc = "scaled" =>
        /\ \A k \in Multipliers :
              WindowsProportional(k) => factor = RDiv(RInt(1), k)
        /\ FactorIsMean

\* C4 as amended: the factor is 1/k when, besides, some sample of the
\* window is not zero; when B is zero at every position of the window (or
\* the window is empty, r = 0) the factor is NaN.  The rest is as stated.
C4_ReciprocalAmended ==
    pc = "scaled" =>
        /\ \A k \in Multipliers :
              (WindowsProportional(k) /\ NonZero # {})
                  => factor = RDiv(RInt(1), k)
        /\ (Len(WindowA) = Len(WindowB) /\ NonZero = {}) => IsNaN(factor)
        /\ FactorIsMean

\* B's window is twice A's, and holds a zero and a sample that is not
C4_Witness ==
    /\ pc = "scaled" /\ r >= 1
    /\ WindowsProportional(RInt(2))
    /\ NonZero # {} /\ NonZero # 1..Len(WindowB)

\* C5: join_spectra never modifies its inputs: at every point of a call,
\* and however it ends, every spectrum of S is as it was given.
C5_InputsUnchanged == \A j \in 1..Len(S) : heap[S[j]] = orig[j]

\* a call that returned a spectrum other than its first input
C5_Witness ==
    /\ pc = "done" /\ nmerged >= 1
    /\ heap[s1].data # orig[1].data /\ heap[s1].axis # orig[1].axis
    /\ heap[s2].data # orig[Len(S)].data

\* C6: for spectra with uniform axes the argument kind selects the
\* interpolation method, whatever average is: once a fold step has merged,
\* the method its interpolator was built with is the one given as kind.
C6_KindSelects ==
    ((\A j \in 1..Len(orig) : orig[j].uniform) /\ nmerged >= 1)
        => fkind = kind

\* C7: for a strictly ascending axis in nm or um, axis2eV returns an axis of
\* the same length whose sample j is nm2eV of the input's sample N + 1 - j
\* (um values times 1000), and which is strictly ascending.
C7_ReversedEnergies ==
    (evpc = "done" /\ ax0.units \in {"nm", "um"} /\ Increasing(ax0.axis)) =>
        LET N == Len(ax0.axis)
            m == IF ax0.units = "um" THEN 1000 ELSE 1
        IN  /\ Len(evout.axis) = N
            /\ \A j \in 1..N : evout.axis[j] = nm2eV(m * ax0.axis[N + 1 - j])
            /\ Increasing(evout.axis)

C7_Witness ==
    /\ evpc = "done" /\ ax0.units = "um" /\ Len(ax0.axis) = 3
    /\ evout.axis[1] < evout.axis[3]

\* C8: a fold step on a non-uniform accumulator leaves the axis
\* A.axis[:ind1] followed by B.axis[ind2:], of length ind1 + len(B) - ind2
\* and strictly increasing.
C8_JoinedAxis ==
    [][(/\ pc = "scaled" /\ pc' = "loop" /\ ~heap[s1].uniform
        /\ Increasing(heap[s1].axis) /\ Increasing(heap[s2].axis)) =>
          LET A == heap[s1].axis
              B == heap[s2].axis
              M == heap'[s1].axis
          IN  /\ M = SubSeq(A, 1, ind1) \o SubSeq(B, ind2 + 1, Len(B))
              /\ Len(M) = ind1 + Len(B) - ind2
              /\ Increasing(M)]_vars

\* a first fold step on non-uniform axes has run, ind2 having been
\* incremented, and samples of both spectra are kept
C8_Witness ==
    /\ pc = "loop" /\ nmerged = 1 /\ ~heap[s1].uniform /\ ~orig[2].uniform
    /\ ind1 >= 1 /\ ind2 >= 1 /\ ind2 < Len(orig[2].axis)
    /\ orig[1].axis[ind1 + 1] > orig[2].axis[ind2]
    /\ heap[s1].axis =
          SubSeq(orig[1].axis, 1, ind1)
          \o SubSeq(orig[2].axis, ind2 + 1, Len(orig[2].axis))

\* C9: once a fold step has passed the overlap and the r tests, both scaling
\* windows lie inside their spectra.
C9_WindowsInside ==
    pc = "located" =>
        /\ 0 <= ind1 - r /\ ind1 + r <= Len(heap[s1].data)
        /\ 0 <= ind2 - r /\ ind2 + r <= Len(heap[s2].data)

\* C10: on uniform axes every coordinate at which B is interpolated lies
\* within the samples of B given to the interpolator, so that the step
\* does not fail in the interpolation.
C10_TargetsInRange ==
    /\ pc # "InterpError"
    /\ (pc = "scaled" /\ heap[s1].uniform /\ heap[s2].uniform) =>
          LET A == heap[s1]
              B == heap[s2]
              g == Grid(A.axis[1], A.scale, NewSize(A, B, ind1))
              within(ts, lo) ==
                  /\ lo < Len(B.axis)
                  /\ \A j \in 1..Len(ts) :
                        /\ B.axis[lo + 1] <= ts[j]
                        /\ ts[j] <= B.axis[Len(B.axis)]
          IN  IF average
              THEN /\ PyIn(g, ind1 - r)
                   /\ \A i2r \in Value2Index(B.axis, 2 * PyItem(g, ind1 - r)) :
                         within(PyFrom(g, ind1 - r + 1), i2r)
              ELSE within(PyFrom(g, ind1 + 1), ind2)

====
